---- MODULE Spec2Model ----
(***************************************************************************)
(* DatabaseOperations of the Cloud Spanner backend for Django              *)
(* (spanner/django/operations.py).                                         *)
(*                                                                         *)
(* The class is stateless: every method is a function of its arguments     *)
(* and of two pieces of ambient configuration, settings.USE_TZ and         *)
(* self.connection.timezone.  The state of the model is that               *)
(* configuration plus the last call made by the host layer (`call`) and    *)
(* what it produced (`result`).                                            *)
(*                                                                         *)
(* Text is modelled by what the code assembles.  A timestamp string is a   *)
(* sequence of one-character strings.  An SQL fragment is a sequence of    *)
(* pieces whose concatenation is the SQL text: every literal piece of a    *)
(* format string and every substituted argument is one piece.              *)
(***************************************************************************)
EXTENDS Integers, Sequences, FiniteSets, TLC

VARIABLES USE_TZ, connection_timezone, call, result

vars == <<USE_TZ, connection_timezone, call, result>>

(***************************************************************************)
(* Bounds and input domains.                                               *)
(***************************************************************************)
\* Longest table list handed to sql_flush.
MaxTables == 2

\* A tzinfo is {} (None: naive) or {m}: a fixed UTC offset of m minutes.
NoTz == {}
UTC == {0}
Offsets == {-300, 0, 330}
Zones == {{z} : z \in Offsets}

Years == {2019, 2020}
Months == {1, 2, 12}
Days == {1, 28, 29, 31}
Hours == {0, 12, 23}
Minutes == {0, 59}
Seconds == {0, 59}
Microseconds == {0, 1, 999999}
\* Nanoseconds the storage layer may report beyond the microsecond.
ExtraNanos == {0, 1, 999}

TableNames == {"a", "b", "order", "my-table"}
Styles == {"no_style", "color_style"}
FieldNames == {"col", "t.c"}
TzNames == {"UTC", "Asia/Kolkata"}
ExtractUnits ==
    {"year", "month", "day", "week", "quarter", "hour", "minute", "second",
     "week_day", "iso_week", "iso_year", "bogus"}
TruncUnits ==
    {"year", "quarter", "month", "week", "day", "hour", "minute", "second",
     "WEEK", "bogus"}
LookupTypes ==
    {"contains", "icontains", "startswith", "istartswith", "endswith",
     "iendswith", "regex", "iregex", "exact", "iexact", "gt", "in", "isnull",
     "bogus"}
InternalTypes == {"None", "CharField", "IntegerField"}

(***************************************************************************)
(* Python values and call outcomes.                                        *)
(***************************************************************************)
None == [type |-> "NoneType"]

Return(v) == [status |-> "return", value |-> v]
Raise(e) == [status |-> "raise", exc |-> e]

\* BoundedSeq(S, n): the sequences over S of length at most n.
BoundedSeq(S, n) == UNION {[1..k -> S] : k \in 0..n}

Contains(s, x) == \E i \in 1..Len(s) : s[i] = x

(***************************************************************************)
(* str % args: "%s" takes the next argument, "%%s" becomes a literal "%s". *)
(***************************************************************************)
RECURSIVE Fmt(_, _)
Fmt(template, args) ==
    IF template = <<>> THEN <<>>
    ELSE IF Head(template) = "%s"
         THEN Head(args) \o Fmt(Tail(template), Tail(args))
    ELSE IF Head(template) = "%%s"
         THEN <<"%s">> \o Fmt(Tail(template), args)
    ELSE <<Head(template)>> \o Fmt(Tail(template), args)

(***************************************************************************)
(* datetime / time of the standard library, as far as the code uses them.  *)
(***************************************************************************)
IsLeap(y) == (y % 4 = 0 /\ y % 100 # 0) \/ y % 400 = 0

DaysInMonth(y, m) ==
    IF m = 2 THEN (IF IsLeap(y) THEN 29 ELSE 28)
    ELSE IF m \in {4, 6, 9, 11} THEN 30 ELSE 31

\* The calendar date n days after date d (n may be negative).
RECURSIVE ShiftDays(_, _)
ShiftDays(d, n) ==
    IF n = 0 THEN d
    ELSE IF n > 0
         THEN ShiftDays(
                  IF d.day < DaysInMonth(d.year, d.month)
                  THEN [d EXCEPT !.day = d.day + 1]
                  ELSE IF d.month < 12
                  THEN [d EXCEPT !.month = d.month + 1, !.day = 1]
                  ELSE [d EXCEPT !.year = d.year + 1, !.month = 1, !.day = 1],
                  n - 1)
    ELSE ShiftDays(
             IF d.day > 1
             THEN [d EXCEPT !.day = d.day - 1]
             ELSE IF d.month > 1
             THEN [d EXCEPT !.month = d.month - 1,
                            !.day = DaysInMonth(d.year, d.month - 1)]
             ELSE [d EXCEPT !.year = d.year - 1, !.month = 12, !.day = 31],
             n + 1)

\* value.utcoffset() in minutes, for a value whose tzinfo is not None.
utcoffset(value) == CHOOSE m \in Offsets : value.tzinfo = {m}

\* datetime.astimezone(tz) for an aware value: the same instant, read on tz's
\* clock.
astimezone(value, tz) ==
    LET total == value.hour * 60 + value.minute - utcoffset(value)
                 + utcoffset([tzinfo |-> tz])
        date  == ShiftDays(value, total \div 1440)
        rem   == total % 1440
    IN  [date EXCEPT !.hour = rem \div 60, !.minute = rem % 60, !.tzinfo = tz]

\* django.utils.timezone.is_aware: utcoffset() is not None.
is_aware(value) == value.tzinfo # NoTz

\* django.utils.timezone.make_naive(value, timezone).
make_naive(value, tz) == [astimezone(value, tz) EXCEPT !.tzinfo = NoTz]

Digits == <<"0", "1", "2", "3", "4", "5", "6", "7", "8", "9">>

\* n written in exactly w decimal digits, zero-padded (the %0wd of isoformat).
RECURSIVE Pad(_, _)
Pad(n, w) == IF w = 0 THEN <<>> ELSE Pad(n \div 10, w - 1) \o <<Digits[(n % 10) + 1]>>

\* The "+HH:MM" / "-HH:MM" isoformat appends when tzinfo is not None.
OffsetSuffix(value) ==
    IF value.tzinfo = NoTz THEN <<>>
    ELSE LET m == utcoffset(value)
             a == IF m < 0 THEN -m ELSE m
         IN  <<IF m < 0 THEN "-" ELSE "+">> \o Pad(a \div 60, 2) \o <<":">>
             \o Pad(a % 60, 2)

\* time.isoformat(timespec='microseconds'): HH:MM:SS.ffffff[+HH:MM]
time_isoformat(value) ==
    Pad(value.hour, 2) \o <<":">> \o Pad(value.minute, 2) \o <<":">>
    \o Pad(value.second, 2) \o <<".">> \o Pad(value.microsecond, 6)
    \o OffsetSuffix(value)

\* datetime.isoformat(timespec='microseconds'):
\* YYYY-MM-DDTHH:MM:SS.ffffff[+HH:MM]
datetime_isoformat(value) ==
    Pad(value.year, 4) \o <<"-">> \o Pad(value.month, 2) \o <<"-">>
    \o Pad(value.day, 2) \o <<"T">> \o time_isoformat(value)

\* spanner.dbapi.parse_utils.TimestampStr: a str subclass that only tags the
\* text as a TIMESTAMP parameter.
TimestampStr(s) == [type |-> "TimestampStr", str |-> s]

\* What the storage layer hands back for a TIMESTAMP column written as ts: a
\* DatetimeWithNanoseconds with the wall-clock fields of the text, tzinfo=UTC
\* and possibly nanoseconds beyond the microsecond.
DigitVal(c) == CHOOSE d \in 0..9 : Digits[d + 1] = c

RECURSIVE ParseInt(_)
ParseInt(cs) ==
    IF cs = <<>> THEN 0
    ELSE ParseInt(SubSeq(cs, 1, Len(cs) - 1)) * 10 + DigitVal(cs[Len(cs)])

\* The text is a timestamp the column accepts: YYYY-MM-DDTHH:MM:SS.ffffffZ.
WellFormedTimestamp(cs) ==
    /\ Len(cs) = 27
    /\ \A i \in 1..27 :
          IF i \in {5, 8} THEN cs[i] = "-"
          ELSE IF i = 11 THEN cs[i] = "T"
          ELSE IF i \in {14, 17} THEN cs[i] = ":"
          ELSE IF i = 20 THEN cs[i] = "."
          ELSE IF i = 27 THEN cs[i] = "Z"
          ELSE \E d \in 1..10 : Digits[d] = cs[i]

DatetimeWithNanoseconds(cs, extra) ==
    [type        |-> "DatetimeWithNanoseconds",
     year        |-> ParseInt(SubSeq(cs, 1, 4)),
     month       |-> ParseInt(SubSeq(cs, 6, 7)),
     day         |-> ParseInt(SubSeq(cs, 9, 10)),
     hour        |-> ParseInt(SubSeq(cs, 12, 13)),
     minute      |-> ParseInt(SubSeq(cs, 15, 16)),
     second      |-> ParseInt(SubSeq(cs, 18, 19)),
     microsecond |-> ParseInt(SubSeq(cs, 21, 26)),
     nanosecond  |-> ParseInt(SubSeq(cs, 21, 26)) * 1000 + extra,
     tzinfo      |-> UTC]

(***************************************************************************)
(* DatabaseOperations.                                                     *)
(***************************************************************************)
extract_names ==
    [week_day |-> "dayofweek", iso_week |-> "isoweek", iso_year |-> "isoyear"]

\* dict.get(key, default)
get(d, key, default) == IF key \in DOMAIN d THEN d[key] ELSE default

\* spanner.dbapi.parse_utils.escape_name: backticks around a name that holds a
\* '-' or is a reserved keyword.
escape_name(name) ==
    IF name \in {"order", "my-table"} THEN <<"<BACKTICK>", name, "<BACKTICK>">>
    ELSE <<name>>

quote_name(name) == escape_name(name)

\* style.SQL_KEYWORD / style.SQL_FIELD: no_style() returns the text as it is,
\* color_style() wraps it in terminal colour codes.
SQL_KEYWORD(style, text) ==
    IF style = "no_style" THEN <<text>> ELSE <<"<ESC>[33m", text, "<ESC>[0m">>

SQL_FIELD(style, text) ==
    IF style = "no_style" THEN text ELSE <<"<ESC>[32;1m">> \o text \o <<"<ESC>[0m">>

sql_flush(style, tables, sequences, allow_cascade) ==
    IF tables # <<>>
    THEN LET delete_sql ==
                 Fmt(<<"%s", " ", "%s", " ", "%%s">>,
                     <<SQL_KEYWORD(style, "DELETE"), SQL_KEYWORD(style, "FROM")>>)
         IN  Return([i \in 1..Len(tables) |->
                        Fmt(delete_sql, <<SQL_FIELD(style, quote_name(tables[i]))>>)])
    ELSE Return(<<>>)

\* hasattr(value, 'resolve_expression')
hasattr_resolve_expression(value) == value.resolve_expression

\* Mutant: an aware value with USE_TZ off loses its zone instead of raising.
adapt_datetimefield_value_DropsZone(value) ==
    IF value = None THEN Return(None)
    ELSE IF hasattr_resolve_expression(value) THEN Return(value)
    ELSE IF is_aware(value) /\ USE_TZ
         THEN Return(TimestampStr(
                  datetime_isoformat(make_naive(value, connection_timezone))
                  \o <<"Z">>))
    ELSE Return(TimestampStr(
             datetime_isoformat([value EXCEPT !.tzinfo = NoTz]) \o <<"Z">>))

\* Mutant: the timezone check runs before the expression check.
adapt_datetimefield_value_ZoneCheckFirst(value) ==
    IF value = None THEN Return(None)
    ELSE IF value.type = "Expression" THEN Raise("AttributeError")
    ELSE IF is_aware(value) /\ ~USE_TZ THEN Raise("ValueError")
    ELSE IF hasattr_resolve_expression(value)
         THEN Return(IF is_aware(value)
                     THEN make_naive(value, connection_timezone)
                     ELSE value)
    ELSE IF is_aware(value)
         THEN Return(TimestampStr(
                  datetime_isoformat(make_naive(value, connection_timezone))
                  \o <<"Z">>))
    ELSE Return(TimestampStr(datetime_isoformat(value) \o <<"Z">>))

adapt_datetimefield_value(value) ==
    IF value = None THEN Return(None)
    ELSE IF hasattr_resolve_expression(value) THEN Return(value)
    ELSE IF is_aware(value)
         THEN IF USE_TZ
              THEN Return(TimestampStr(
                       datetime_isoformat(make_naive(value, connection_timezone))
                       \o <<"Z">>))
              ELSE Raise("ValueError")
    ELSE Return(TimestampStr(datetime_isoformat(value) \o <<"Z">>))

adapt_timefield_value(value) ==
    IF value = None THEN Return(None)
    ELSE Return(TimestampStr(
             <<"0", "0", "0", "1", "-", "0", "1", "-", "0", "1", "T">>
             \o time_isoformat(value) \o <<"Z">>))
\* Mutant: the UTC tag of the storage value is kept.
convert_datetimefield_value_LeftAsUtc(value, expression, connection) ==
    IF value = None THEN Return(value)
    ELSE Return([type                |-> "datetime",
                 resolve_expression  |-> FALSE,
                 year                |-> value.year,
                 month               |-> value.month,
                 day                 |-> value.day,
                 hour                |-> value.hour,
                 minute              |-> value.minute,
                 second              |-> value.second,
                 microsecond         |-> value.microsecond,
                 tzinfo              |-> value.tzinfo])

convert_datetimefield_value(value, expression, connection) ==
    IF value = None THEN Return(value)
    ELSE Return([type                |-> "datetime",
                 resolve_expression  |-> FALSE,
                 year                |-> value.year,
                 month               |-> value.month,
                 day                 |-> value.day,
                 hour                |-> value.hour,
                 minute              |-> value.minute,
                 second              |-> value.second,
                 microsecond         |-> value.microsecond,
                 tzinfo              |-> connection_timezone])

convert_timefield_value(value, expression, connection) ==
    IF value = None THEN Return(value)
    ELSE Return([type        |-> "time",
                 hour        |-> value.hour,
                 minute      |-> value.minute,
                 second      |-> value.second,
                 microsecond |-> value.microsecond,
                 tzinfo      |-> NoTz])

date_extract_sql(lookup_type, field_name) ==
    LET lookup == get(extract_names, lookup_type, lookup_type)
    IN  Return(Fmt(<<"EXTRACT(", "%s", " FROM ", "%s", ")">>,
                   <<<<lookup>>, <<field_name>>>>))
\* Mutant: the caller's zone is used whatever USE_TZ is.
datetime_extract_sql_IgnoresUseTz(lookup_type, field_name, tzname) ==
    LET lookup == get(extract_names, lookup_type, lookup_type)
    IN  Return(Fmt(<<"EXTRACT(", "%s", " FROM ", "%s", " AT TIME ZONE \"", "%s", "\")">>,
                   <<<<lookup>>, <<field_name>>, <<tzname>>>>))

datetime_extract_sql(lookup_type, field_name, tzname) ==
    LET tz     == IF USE_TZ THEN tzname ELSE "UTC"
        lookup == get(extract_names, lookup_type, lookup_type)
    IN  Return(Fmt(<<"EXTRACT(", "%s", " FROM ", "%s", " AT TIME ZONE \"", "%s", "\")">>,
                   <<<<lookup>>, <<field_name>>, <<tz>>>>))

time_extract_sql(lookup_type, field_name) ==
    Return(Fmt(<<"EXTRACT(", "%s", " FROM ", "%s", " AT TIME ZONE \"", "UTC", "\")">>,
               <<<<lookup_type>>, <<field_name>>>>))
\* Mutant: the day subtracted before a week truncation is never added back.
date_trunc_sql_NoAddBack(lookup_type, field_name) ==
    LET field == IF lookup_type = "week"
                 THEN <<"DATE_SUB(">> \o <<field_name>> \o <<", INTERVAL 1 DAY)">>
                 ELSE <<field_name>>
    IN  Return(Fmt(<<"DATE_TRUNC(", "%s", ", ", "%s", ")">>,
                   <<field, <<lookup_type>>>>))

date_trunc_sql(lookup_type, field_name) ==
    LET field == IF lookup_type = "week"
                 THEN <<"DATE_SUB(">> \o <<field_name>> \o <<", INTERVAL 1 DAY)">>
                 ELSE <<field_name>>
        sql   == Fmt(<<"DATE_TRUNC(", "%s", ", ", "%s", ")">>,
                     <<field, <<lookup_type>>>>)
    IN  Return(IF lookup_type = "week"
               THEN <<"DATE_ADD(">> \o sql \o <<", INTERVAL 1 DAY)">>
               ELSE sql)

datetime_trunc_sql(lookup_type, field_name, tzname) ==
    LET tz    == IF USE_TZ THEN tzname ELSE "UTC"
        field == IF lookup_type = "week"
                 THEN <<"TIMESTAMP_SUB(">> \o <<field_name>> \o <<", INTERVAL 1 DAY)">>
                 ELSE <<field_name>>
        sql   == Fmt(<<"TIMESTAMP_TRUNC(", "%s", ", ", "%s", ", \"", "%s", "\")">>,
                     <<field, <<lookup_type>>, <<tz>>>>)
    IN  Return(IF lookup_type = "week"
               THEN <<"TIMESTAMP_ADD(">> \o sql \o <<", INTERVAL 1 DAY)">>
               ELSE sql)
\* Mutant: iregex is missing from the text lookups.
lookup_cast_WithoutIregex(lookup_type, internal_type) ==
    IF lookup_type \in {"contains", "icontains", "startswith", "istartswith",
                        "endswith", "iendswith", "regex"}
    THEN Return(<<"CAST(", "%s", " AS STRING)">>)
    ELSE Return(<<"%s">>)

lookup_cast(lookup_type, internal_type) ==
    IF lookup_type \in {"contains", "icontains", "startswith", "istartswith",
                        "endswith", "iendswith", "regex", "iregex"}
    THEN Return(<<"CAST(", "%s", " AS STRING)">>)
    ELSE Return(<<"%s">>)

(***************************************************************************)
(* The values the host layer binds.                                        *)
(***************************************************************************)
TzInfos == {NoTz} \cup Zones

\* datetime.datetime values; resolve_expression is TRUE for a datetime-like
\* object that also defines resolve_expression.
DatetimeValues ==
    {v \in [type : {"datetime"}, resolve_expression : BOOLEAN,
            year : Years, month : Months, day : Days,
            hour : Hours, minute : Minutes, second : Seconds,
            microsecond : Microseconds, tzinfo : TzInfos] :
        v.day <= DaysInMonth(v.year, v.month)}

\* Query expressions such as F('x') or Now(): they define resolve_expression
\* and have no utcoffset().
ExpressionValues ==
    [type : {"Expression"}, resolve_expression : {TRUE}, name : {"F", "Now"}]

TimeValues ==
    [type : {"time"}, hour : Hours, minute : Minutes, second : Seconds,
     microsecond : Microseconds, tzinfo : TzInfos]

(***************************************************************************)
(* State machine.  The host layer invokes a hook with arguments of its     *)
(* choosing (`call`, drawn in Init, with the result pending) and the hook   *)
(* runs to completion.  A value adapted for a datetime or time column can   *)
(* then be read back through the converter of that field kind.             *)
(***************************************************************************)
Pending == [status |-> "pending"]

Calls ==
    [op : {"sql_flush"}, style : Styles,
     tables : BoundedSeq(TableNames, MaxTables),
     sequences : {<<>>, <<"a_id_seq">>}, allow_cascade : BOOLEAN]
    \cup [op : {"adapt_datetimefield_value"},
          value : {None} \cup DatetimeValues \cup ExpressionValues]
    \cup [op : {"adapt_timefield_value"}, value : {None} \cup TimeValues]
    \cup [op : {"date_extract_sql", "time_extract_sql"},
          lookup_type : ExtractUnits, field_name : FieldNames]
    \cup [op : {"datetime_extract_sql"},
          lookup_type : ExtractUnits, field_name : FieldNames, tzname : TzNames]
    \cup [op : {"date_trunc_sql"},
          lookup_type : TruncUnits, field_name : FieldNames]
    \cup [op : {"datetime_trunc_sql"},
          lookup_type : TruncUnits, field_name : FieldNames, tzname : TzNames]
    \cup [op : {"lookup_cast"},
          lookup_type : LookupTypes, internal_type : InternalTypes]

Init ==
    /\ USE_TZ \in BOOLEAN
    /\ connection_timezone \in (IF USE_TZ THEN Zones ELSE {NoTz})
    /\ call \in Calls
    /\ result = Pending

SqlFlush ==
    /\ call.op = "sql_flush"
    /\ result = Pending
    /\ result' = sql_flush(call.style, call.tables, call.sequences, call.allow_cascade)
    /\ UNCHANGED <<USE_TZ, connection_timezone, call>>

AdaptDatetimefieldValue ==
    /\ call.op = "adapt_datetimefield_value"
    /\ result = Pending
    /\ result' = adapt_datetimefield_value(call.value)
    /\ UNCHANGED <<USE_TZ, connection_timezone, call>>

AdaptTimefieldValue ==
    /\ call.op = "adapt_timefield_value"
    /\ result = Pending
    /\ result' = adapt_timefield_value(call.value)
    /\ UNCHANGED <<USE_TZ, connection_timezone, call>>

\* A row is read back: the storage layer returns the column the adapt call
\* wrote (NULL for None) and the converter of the field kind decodes it.
\* `sent` records the value that was adapted.
ConvertDatetimefieldValue ==
    /\ call.op = "adapt_datetimefield_value"
    /\ result.status = "return"
    /\ result.value.type \in {"NoneType", "TimestampStr"}
    /\ result.value.type = "TimestampStr" => WellFormedTimestamp(result.value.str)
    /\ \E extra \in ExtraNanos :
          LET value == IF result.value = None THEN None
                       ELSE DatetimeWithNanoseconds(result.value.str, extra)
          IN  /\ call' = [op |-> "convert_datetimefield_value", value |-> value,
                          sent |-> call.value]
              /\ result' = convert_datetimefield_value(value, "expression", "connection")
    /\ UNCHANGED <<USE_TZ, connection_timezone>>

ConvertTimefieldValue ==
    /\ call.op = "adapt_timefield_value"
    /\ result.status = "return"
    /\ result.value.type = "TimestampStr" => WellFormedTimestamp(result.value.str)
    /\ \E extra \in ExtraNanos :
          LET value == IF result.value = None THEN None
                       ELSE DatetimeWithNanoseconds(result.value.str, extra)
          IN  /\ call' = [op |-> "convert_timefield_value", value |-> value,
                          sent |-> call.value]
              /\ result' = convert_timefield_value(value, "expression", "connection")
    /\ UNCHANGED <<USE_TZ, connection_timezone>>

DateExtractSql ==
    /\ call.op = "date_extract_sql"
    /\ result = Pending
    /\ result' = date_extract_sql(call.lookup_type, call.field_name)
    /\ UNCHANGED <<USE_TZ, connection_timezone, call>>

DatetimeExtractSql ==
    /\ call.op = "datetime_extract_sql"
    /\ result = Pending
    /\ result' = datetime_extract_sql(call.lookup_type, call.field_name, call.tzname)
    /\ UNCHANGED <<USE_TZ, connection_timezone, call>>

TimeExtractSql ==
    /\ call.op = "time_extract_sql"
    /\ result = Pending
    /\ result' = time_extract_sql(call.lookup_type, call.field_name)
    /\ UNCHANGED <<USE_TZ, connection_timezone, call>>

DateTruncSql ==
    /\ call.op = "date_trunc_sql"
    /\ result = Pending
    /\ result' = date_trunc_sql(call.lookup_type, call.field_name)
    /\ UNCHANGED <<USE_TZ, connection_timezone, call>>

DatetimeTruncSql ==
    /\ call.op = "datetime_trunc_sql"
    /\ result = Pending
    /\ result' = datetime_trunc_sql(call.lookup_type, call.field_name, call.tzname)
    /\ UNCHANGED <<USE_TZ, connection_timezone, call>>

LookupCast ==
    /\ call.op = "lookup_cast"
    /\ result = Pending
    /\ result' = lookup_cast(call.lookup_type, call.internal_type)
    /\ UNCHANGED <<USE_TZ, connection_timezone, call>>

Next ==
    \/ SqlFlush
    \/ AdaptDatetimefieldValue
    \/ AdaptTimefieldValue
    \/ ConvertDatetimefieldValue
    \/ ConvertTimefieldValue
    \/ DateExtractSql
    \/ DatetimeExtractSql
    \/ TimeExtractSql
    \/ DateTruncSql
    \/ DatetimeTruncSql
    \/ LookupCast

Spec == Init /\ [][Next]_vars

(***************************************************************************)
(* Vocabulary of the properties.                                           *)
(***************************************************************************)
Returned(op) == call.op = op /\ result.status = "return"
Finished(op) == call.op = op /\ result # Pending

\* s holds the pieces of q, contiguously and in order.
HasPieces(s, q) == \E j \in 1..(Len(s) - Len(q) + 1) : SubSeq(s, j, j + Len(q) - 1) = q

\* The statement carries a WHERE clause whose predicate is always true.
WherePieces ==
    {"WHERE", " WHERE ", " WHERE 1=1", " WHERE true", " WHERE TRUE", "WHERE 1=1",
     "WHERE true", "WHERE TRUE"}
HasWhereClause(stmt) == \E j \in 1..Len(stmt) : stmt[j] \in WherePieces

\* date.toordinal(): days since 0001-01-01, counted without stepping day by day.
DaysBeforeYear(y) == 365 * (y - 1) + ((y - 1) \div 4) - ((y - 1) \div 100) + ((y - 1) \div 400)
RECURSIVE DaysBeforeMonth(_, _)
DaysBeforeMonth(y, m) ==
    IF m = 1 THEN 0 ELSE DaysBeforeMonth(y, m - 1) + DaysInMonth(y, m - 1)
toordinal(v) == DaysBeforeYear(v.year) + DaysBeforeMonth(v.year, v.month) + v.day

\* The instant a wall clock reading v denotes on a clock off minutes ahead of
\* UTC, in minutes.
InstantMinutes(v, off) == toordinal(v) * 1440 + v.hour * 60 + v.minute - off

SameWallClock(a, b) ==
    /\ a.year = b.year /\ a.month = b.month /\ a.day = b.day
    /\ a.hour = b.hour /\ a.minute = b.minute
    /\ a.second = b.second /\ a.microsecond = b.microsecond

\* A literal datetime: not None, no resolve_expression.
IsLiteralDatetime(v) == v # None /\ v.type = "datetime" /\ ~v.resolve_expression

(***************************************************************************)
(* C1.  sql_flush returns an empty list for an empty table set, and        *)
(* otherwise exactly one DELETE statement per table, in input order, each  *)
(* naming the quoted table and each holding a WHERE clause with an         *)
(* always-true predicate.                                                  *)
(***************************************************************************)
\* The part of C1 about the list: its length, order, DELETE and table names.
C1_OnePerTableInOrder ==
    Returned("sql_flush") =>
        /\ Len(result.value) = Len(call.tables)
        /\ \A i \in 1..Len(call.tables) :
              /\ Contains(result.value[i], "DELETE")
              /\ HasPieces(result.value[i], quote_name(call.tables[i]))

C1_SqlFlushDeleteWithWhere ==
    Finished("sql_flush") =>
        /\ result.status = "return"
        /\ call.tables = <<>> => result.value = <<>>
        /\ Len(result.value) = Len(call.tables)
        /\ \A i \in 1..Len(call.tables) :
              /\ Contains(result.value[i], "DELETE")
              /\ HasPieces(result.value[i], quote_name(call.tables[i]))
              /\ HasWhereClause(result.value[i])

(***************************************************************************)
(* C3.  A request for cascade behaviour (allow_cascade = TRUE) reaching    *)
(* sql_flush is not silently ignored: the call fails.                      *)
(***************************************************************************)
C3_CascadeFailsLoudly ==
    (Finished("sql_flush") /\ call.allow_cascade) => result.status = "raise"

(***************************************************************************)
(* C4.  In date_extract_sql, datetime_extract_sql and time_extract_sql the *)
(* unit emitted in the EXTRACT fragment is the unit translated through the *)
(* synonym table: week_day -> dayofweek, iso_week -> isoweek,              *)
(* iso_year -> isoyear, any other unit unchanged.                          *)
(***************************************************************************)
Synonym(unit) ==
    CASE unit = "week_day" -> "dayofweek"
      [] unit = "iso_week" -> "isoweek"
      [] unit = "iso_year" -> "isoyear"
      [] OTHER -> unit

\* The unit of an EXTRACT fragment: the piece between "EXTRACT(" and " FROM ".
EmittedUnit(frag) == frag[2]

ExtractOps == {"date_extract_sql", "datetime_extract_sql", "time_extract_sql"}

C4_ExtractUnitTranslated ==
    (call.op \in ExtractOps /\ result # Pending) =>
        /\ result.status = "return"
        /\ result.value[1] = "EXTRACT(" /\ result.value[3] = " FROM "
        /\ EmittedUnit(result.value) = Synonym(call.lookup_type)

\* The part of C4 about date_extract_sql and datetime_extract_sql.
C4_DateAndDatetimeTranslated ==
    (call.op \in {"date_extract_sql", "datetime_extract_sql"} /\ result # Pending) =>
        /\ result.status = "return"
        /\ EmittedUnit(result.value) = Synonym(call.lookup_type)

(***************************************************************************)
(* C2.  adapt_datetimefield_value on a literal timezone-aware datetime     *)
(* raises ValueError when USE_TZ is off.  When USE_TZ is on it returns a   *)
(* timestamp text YYYY-MM-DDTHH:MM:SS.ffffffZ (microsecond precision, a    *)
(* trailing Z) whose wall clock reading is the value's instant on the      *)
(* connection timezone's clock.                                            *)
(***************************************************************************)
C2_AwareDatetimeNeedsUseTz ==
    (Finished("adapt_datetimefield_value") /\ IsLiteralDatetime(call.value)
         /\ is_aware(call.value)) =>
        IF ~USE_TZ
        THEN result = Raise("ValueError")
        ELSE /\ result.status = "return"
             /\ result.value.type = "TimestampStr"
             /\ WellFormedTimestamp(result.value.str)
             /\ LET local == DatetimeWithNanoseconds(result.value.str, 0)
                IN  /\ InstantMinutes(local, utcoffset([tzinfo |-> connection_timezone]))
                       = InstantMinutes(call.value, utcoffset(call.value))
                    /\ local.second = call.value.second
                    /\ local.microsecond = call.value.microsecond

\* An aware datetime was refused because USE_TZ is off.
C2_Witness ==
    /\ Finished("adapt_datetimefield_value")
    /\ IsLiteralDatetime(call.value) /\ is_aware(call.value)
    /\ ~USE_TZ
    /\ result.status = "raise"

(***************************************************************************)
(* C5.  The time zone named in an extraction fragment: datetime_extract_sql*)
(* names the caller's zone when USE_TZ is on and "UTC" when it is off;     *)
(* time_extract_sql always names "UTC"; date_extract_sql has no            *)
(* AT TIME ZONE part.                                                      *)
(***************************************************************************)
AtTimeZone == " AT TIME ZONE \""

\* The fragment ends  AT TIME ZONE "<tz>")
NamesZone(frag, tz) ==
    /\ Len(frag) = 7
    /\ frag[5] = AtTimeZone /\ frag[6] = tz /\ frag[7] = "\")"

C5_ExtractTimeZone ==
    /\ Finished("datetime_extract_sql") =>
          /\ result.status = "return"
          /\ NamesZone(result.value, IF USE_TZ THEN call.tzname ELSE "UTC")
    /\ Finished("time_extract_sql") =>
          /\ result.status = "return"
          /\ NamesZone(result.value, "UTC")
    /\ Finished("date_extract_sql") =>
          /\ result.status = "return"
          /\ ~Contains(result.value, AtTimeZone)
          /\ result.value[Len(result.value)] = ")"

\* With USE_TZ off, a datetime extraction asked for another zone got "UTC".
C5_Witness ==
    /\ Returned("datetime_extract_sql")
    /\ ~USE_TZ /\ call.tzname # "UTC"
    /\ NamesZone(result.value, "UTC")

(***************************************************************************)
(* C6.  date_trunc_sql and datetime_trunc_sql shift by a day exactly when  *)
(* the unit is 'week': add(trunc(sub(field, 1 day), week), 1 day).  Every  *)
(* other unit truncates the field reference directly, with no subtraction  *)
(* and no addition.                                                        *)
(***************************************************************************)
OneDay == ", INTERVAL 1 DAY)"

C6_WeekShiftOnlyForWeek ==
    /\ Finished("date_trunc_sql") =>
          /\ result.status = "return"
          /\ IF call.lookup_type = "week"
             THEN result.value =
                      <<"DATE_ADD(", "DATE_TRUNC(", "DATE_SUB(", call.field_name,
                        OneDay, ", ", "week", ")", OneDay>>
             ELSE result.value =
                      <<"DATE_TRUNC(", call.field_name, ", ", call.lookup_type, ")">>
    /\ Finished("datetime_trunc_sql") =>
          /\ result.status = "return"
          /\ LET tz == IF USE_TZ THEN call.tzname ELSE "UTC"
             IN  IF call.lookup_type = "week"
                 THEN result.value =
                          <<"TIMESTAMP_ADD(", "TIMESTAMP_TRUNC(", "TIMESTAMP_SUB(",
                            call.field_name, OneDay, ", ", "week", ", \"", tz, "\")",
                            OneDay>>
                 ELSE result.value =
                          <<"TIMESTAMP_TRUNC(", call.field_name, ", ",
                            call.lookup_type, ", \"", tz, "\")">>

\* A week truncation came back wrapped in the addition.
C6_Witness ==
    /\ Returned("datetime_trunc_sql")
    /\ call.lookup_type = "week"
    /\ result.value[1] = "TIMESTAMP_ADD("
    /\ Contains(result.value, "TIMESTAMP_SUB(")

(***************************************************************************)
(* C7.  Datetime round trip.  A literal datetime t that                    *)
(* adapt_datetimefield_value accepted, read back from storage (the same    *)
(* wall clock fields tagged UTC, possibly with nanoseconds) through        *)
(* convert_datetimefield_value, is a datetime with the wall clock fields   *)
(* of the encoded text, tagged with the connection timezone and not left   *)
(* as UTC, with no sub-microsecond part: t itself for a naive t, and the   *)
(* instant of t on the connection timezone's clock for an aware t.         *)
(***************************************************************************)
C7_DatetimeRoundTrip ==
    (Finished("convert_datetimefield_value") /\ call.sent # None) =>
        /\ result.status = "return"
        /\ result.value.type = "datetime"
        /\ "nanosecond" \notin DOMAIN result.value
        /\ result.value.tzinfo = connection_timezone
        /\ SameWallClock(result.value, call.value)
        /\ result.value.second = call.sent.second
        /\ result.value.microsecond = call.sent.microsecond
        /\ IF is_aware(call.sent)
           THEN InstantMinutes(result.value, utcoffset(result.value))
                = InstantMinutes(call.sent, utcoffset(call.sent))
           ELSE SameWallClock(result.value, call.sent)

\* An aware datetime written in another zone than the connection's came back
\* from a column that reported extra nanoseconds, on another calendar day and
\* tagged with a connection timezone that is not UTC.
C7_Witness ==
    /\ Returned("convert_datetimefield_value")
    /\ call.sent # None
    /\ is_aware(call.sent)
    /\ call.sent.tzinfo # connection_timezone
    /\ connection_timezone # UTC
    /\ call.value.nanosecond # call.value.microsecond * 1000
    /\ result.value.day # call.sent.day
    /\ result.value.tzinfo = connection_timezone

(***************************************************************************)
(* C8.  adapt_timefield_value on every time value that is not None, naive  *)
(* or aware, returns the text 0001-01-01THH:MM:SS.ffffffZ: the sentinel    *)
(* date, the time of day at microsecond precision, and Z right after the   *)
(* microsecond digits as the only zone marker.                             *)
(***************************************************************************)
SentinelDate == <<"0", "0", "0", "1", "-", "0", "1", "-", "0", "1", "T">>

C8_TimeTextShape ==
    (Finished("adapt_timefield_value") /\ call.value # None) =>
        /\ result.status = "return"
        /\ result.value.type = "TimestampStr"
        /\ WellFormedTimestamp(result.value.str)
        /\ SubSeq(result.value.str, 1, 11) = SentinelDate
        /\ LET back == DatetimeWithNanoseconds(result.value.str, 0)
           IN  /\ back.hour = call.value.hour
               /\ back.minute = call.value.minute
               /\ back.second = call.value.second
               /\ back.microsecond = call.value.microsecond

\* The part of C8 about naive time values.
C8_NaiveTimeTextShape ==
    (Finished("adapt_timefield_value") /\ call.value # None
         /\ ~is_aware(call.value)) =>
        /\ result.status = "return"
        /\ WellFormedTimestamp(result.value.str)
        /\ SubSeq(result.value.str, 1, 11) = SentinelDate

(***************************************************************************)
(* C9.  lookup_cast returns the cast-to-string wrapper exactly for         *)
(* contains, icontains, startswith, istartswith, endswith, iendswith,      *)
(* regex and iregex, and the identity fragment for every other lookup      *)
(* kind, whatever internal_type is.                                        *)
(***************************************************************************)
TextLookups ==
    {"contains", "icontains", "startswith", "istartswith", "endswith",
     "iendswith", "regex", "iregex"}

C9_LookupCastOnlyTextLookups ==
    Finished("lookup_cast") =>
        /\ result.status = "return"
        /\ call.lookup_type \in TextLookups
              => result.value = <<"CAST(", "%s", " AS STRING)">>
        /\ call.lookup_type \notin TextLookups => result.value = <<"%s">>

\* A text lookup on a column that is not text got the cast.
C9_Witness ==
    /\ Returned("lookup_cast")
    /\ call.lookup_type = "iregex"
    /\ call.internal_type = "IntegerField"
    /\ result.value = <<"CAST(", "%s", " AS STRING)">>

(***************************************************************************)
(* C10.  adapt_datetimefield_value returns a value that carries            *)
(* resolve_expression unchanged, whether USE_TZ is on or off: the          *)
(* expression check comes before the timezone check, so such a value never *)
(* raises and is never rendered as text.                                   *)
(***************************************************************************)
C10_ExpressionPassesThrough ==
    (Finished("adapt_datetimefield_value") /\ call.value # None
         /\ call.value.resolve_expression) =>
        result = Return(call.value)

\* With USE_TZ off, a timezone-aware value that carries resolve_expression
\* came back unchanged.
C10_Witness ==
    /\ Returned("adapt_datetimefield_value")
    /\ ~USE_TZ
    /\ call.value # None
    /\ call.value.resolve_expression
    /\ call.value.type = "datetime"
    /\ is_aware(call.value)
    /\ result.value = call.value

====
